---------------------------- MODULE Spec2Model ----------------------------
(***************************************************************************)
(* A model of qimgv's Core (the orchestrator of cache, loader and scaler). *)
(* Every handler of Core is one action; the state a handler works on is    *)
(* threaded through operators as a record c ("context") whose fields are   *)
(* the variables below, and Commit(c) writes it back.                      *)
(*                                                                         *)
(* File names are the integers 1, 2, ...; the empty QString "" is NoName.  *)
(* A path is [dir, name]; an Image instance is [dir, name, tag], the tag   *)
(* telling apart two decodes of the same file; NullImg is the NULL         *)
(* pointer.                                                                *)
(***************************************************************************)
EXTENDS Integers, Sequences, FiniteSets, TLC

\* ----- bounds of the model
NumFiles == 3
MaxInFlight == 2
MaxTag == 2
MaxScale == 1
MaxRes == 2
MaxRemoved == 1

\* ----- value spaces
NoName == 0
NoDir == 0
Dirs == {1, 2}
NoPath == [dir |-> NoDir, name |-> NoName]
NullImg == [dir |-> NoDir, name |-> NoName, tag |-> 0]

\* the files on disk when the program starts: directory 1 holds 1..NumFiles,
\* directory 2 holds one file
InitialFs == [d \in Dirs |-> IF d = 1 THEN [i \in 1..NumFiles |-> i]
                                      ELSE <<NumFiles + 1>>]
Names == 1..(NumFiles + 1)

VARIABLES
    fs,                \* the disk: directory -> list of file names
    dirPath,           \* DirectoryManager: the current directory (NoDir: none)
    state,             \* Core::state (NavigationState)
    cache,             \* Cache: key -> [img, res, edited]
    tasks,             \* Loader: decodes in flight (each will deliver loadFinished)
    scalerQ,           \* Scaler: requests in flight
    out,               \* what the last handler did at the boundaries
    navigated,         \* history: a navigation or an open succeeded since the listing last changed
    aborted            \* the process has crashed

vars == <<fs, dirPath, state, cache, tasks, scalerQ, out, navigated, aborted>>

\* ----- Image (image.h): the kind of a file is fixed by the file
ImageType(img) ==
    IF img.name % 3 = 0 THEN "ANIMATED"
    ELSE IF img.name % 5 = 0 THEN "VIDEO"
    ELSE "STATIC"

\* ----- DirectoryManager
fileList(c) == IF c.dirPath = NoDir THEN <<>> ELSE c.fs[c.dirPath]
fileCount(c) == Len(fileList(c))
hasImages(c) == fileCount(c) > 0
checkRange(c, i) == i >= 0 /\ i < fileCount(c)
fileNameAt(c, i) == IF checkRange(c, i) THEN fileList(c)[i + 1] ELSE NoName
filePathAt(c, i) ==
    IF checkRange(c, i) THEN [dir |-> c.dirPath, name |-> fileList(c)[i + 1]]
    ELSE NoPath
indexOf(c, name) ==
    IF \E i \in 1..fileCount(c) : fileList(c)[i] = name
    THEN (CHOOSE i \in 1..fileCount(c) : fileList(c)[i] = name) - 1
    ELSE -1
\* the list without its i-th element (1-based)
RemoveAt(list, i) == [j \in 1..(Len(list) - 1) |-> IF j < i THEN list[j] ELSE list[j + 1]]

\* ----- Cache
contains(ch, key) == key \in DOMAIN ch
get(ch, key) == IF key \in DOMAIN ch THEN ch[key].img ELSE NullImg
insert(ch, key, img) ==
    IF key \in DOMAIN ch THEN ch
    ELSE [k \in DOMAIN ch \cup {key} |->
            IF k = key THEN [img |-> img, res |-> 0, edited |-> FALSE] ELSE ch[k]]
reserve(ch, key) ==
    IF key \in DOMAIN ch THEN [ch EXCEPT ![key].res = @ + 1] ELSE ch
release(ch, key) ==
    IF key \in DOMAIN ch /\ ch[key].res > 0 THEN [ch EXCEPT ![key].res = @ - 1] ELSE ch
\* trimTo as it would be if reservations did not count
trimTo_ignoreReservation(ch, keep) ==
    [k \in {x \in DOMAIN ch : x \in keep} |-> ch[k]]
trimTo(ch, keep) ==
    [k \in {x \in DOMAIN ch : x \in keep \/ ch[x].res > 0} |-> ch[k]]
clear(ch) ==
    [k \in {x \in DOMAIN ch : ch[x].res > 0} |-> ch[k]]
setEditedImage(ch, key) == [ch EXCEPT ![key].edited = TRUE]
EmptyCache == [k \in {} |-> 0]

\* ----- the context record and the boundary log of one handler
\* out: the handler (op, arg), the messages shown (msgs), the loader calls (sub),
\* the images handed to displayImage (disp), what else it did (flag), the
\* settings it read (inf, pre: empty when not read), its calls on the cache in
\* their order (calls), whether it ran into undefined behaviour (ub) or past a
\* bound of the model (ovf)
NoOut == [op |-> "init", arg |-> 0, msgs |-> <<>>, sub |-> <<>>, disp |-> <<>>,
          flag |-> "", inf |-> <<>>, pre |-> <<>>, calls |-> <<>>,
          ub |-> FALSE, ovf |-> FALSE]
Begin(c, op, arg) == [c EXCEPT !.out = [NoOut EXCEPT !.op = op, !.arg = arg]]
showMessage(c, m) == [c EXCEPT !.out.msgs = Append(@, m)]
Flag(c, f) == [c EXCEPT !.out.flag = f]
\* cache->lock(), cache->unlock(), and a call of the cache named as in the source
\* ("reserve" for one that succeeded, "reserveFailed" for one that did not)
Call(c, name) == [c EXCEPT !.out.calls = Append(@, name)]
Calls(c, names) == [c EXCEPT !.out.calls = @ \o names]

Init ==
    /\ fs = InitialFs
    /\ dirPath = NoDir
    /\ state = [currentIndex |-> 0, hasActiveImage |-> FALSE,
                isWaitingForLoader |-> FALSE, displayingFileName |-> NoName]
    /\ cache = EmptyCache
    /\ tasks = {}
    /\ scalerQ = {}
    /\ out = NoOut
    /\ navigated = FALSE
    /\ aborted = FALSE

\* ----- Loader
\* the image instances held by the loader and the cache: a new decode gets a tag
\* none of them has
Live(c) == c.tasks \cup {c.cache[k].img : k \in DOMAIN c.cache}
FreeTags(c, path) ==
    {t \in 1..MaxTag : [dir |-> path.dir, name |-> path.name, tag |-> t] \notin Live(c)}
NewTask(c, path) ==
    [dir |-> path.dir, name |-> path.name,
     tag |-> IF FreeTags(c, path) = {} THEN 0
             ELSE CHOOSE t \in FreeTags(c, path) : \A u \in FreeTags(c, path) : t <= u]
Submit(c, kind, path, tsk) ==
    [c EXCEPT !.tasks = tsk,
              !.out.sub = Append(@, <<kind, path>>),
              !.out.ovf = @ \/ Cardinality(tsk) > MaxInFlight \/ FreeTags(c, path) = {}]
\* load(path): speculative; starts nothing when the path is already being decoded
load(c, path) ==
    IF \E t \in c.tasks : t.dir = path.dir /\ t.name = path.name
    THEN [c EXCEPT !.out.sub = Append(@, <<"load", path>>)]
    ELSE Submit(c, "load", path, c.tasks \cup {NewTask(c, path)})
\* loadExclusive(path): cancels the decodes in flight, then starts this one.  The
\* decodes past the point of cancellation (any of them, unless the loader of this
\* run cancels all) still deliver: one outcome per set of survivors.
loadExclusive(c, path) ==
    {LET c1 == [c EXCEPT !.tasks = keep]
     IN  Submit(c1, "loadExclusive", path, keep \cup {NewTask(c1, path)}) :
        keep \in IF c.cancelAll THEN {{}} ELSE SUBSET c.tasks}
\* loadBlocking(path): decodes and returns the image to its caller; no notification
loadBlocking(c, path) == [c EXCEPT !.out.sub = Append(@, <<"loadBlocking", path>>)]

\* ----- Core
\* A handler that may call loadExclusive yields a set of contexts, one per outcome
\* of the cancellation; the others yield one context.
updateInfoString(c) ==
    IF ~c.state.isWaitingForLoader
    THEN IF get(c.cache, fileNameAt(c, c.state.currentIndex)) = NullImg
         THEN [Call(c, "get") EXCEPT !.out.ub = TRUE]  \* img->name() on the NULL get() returned
         ELSE Call(c, "get")
    ELSE c

trimCache(c) ==
    LET list == {fileNameAt(c, c.state.currentIndex - 1),
                 fileNameAt(c, c.state.currentIndex),
                 fileNameAt(c, c.state.currentIndex + 1)}
    IN  [Calls(c, <<"lock", "trimTo", "unlock">>) EXCEPT !.cache = trimTo(c.cache, list)]

clearCache(c) ==
    [Calls(c, <<"lock", "clear", "unlock">>) EXCEPT !.cache = clear(c.cache)]

displayImage(c, img) ==
    LET c1 == [c EXCEPT !.state.isWaitingForLoader = FALSE,
                        !.state.hasActiveImage = TRUE,
                        !.out.disp = Append(@, img)]
    IN  IF img # NullImg
        THEN updateInfoString([c1 EXCEPT !.state.displayingFileName = img.name])
        ELSE showMessage(c1, "Error: could not load image.")

onLoadStarted(c) ==
    trimCache(updateInfoString(
        [c EXCEPT !.state.isWaitingForLoader = TRUE, !.navigated = TRUE]))

\* what loadByIndex, loadByIndexBlocking, slotNextImage and slotPrevImage all do
\* once state.currentIndex is set: onLoadStarted, then the cache hit or the load
startLoad(c) ==
    LET c1 == onLoadStarted(c)
        nameKey == fileNameAt(c1, c1.state.currentIndex)
    IN  IF contains(c1.cache, nameKey)
        THEN {displayImage(Calls(c1, <<"contains", "get">>), get(c1.cache, nameKey))}
        ELSE loadExclusive(Call(c1, "contains"), filePathAt(c1, c1.state.currentIndex))

loadByIndexOk(c, index) == index >= 0 /\ index < fileCount(c)
loadByIndex(c, index) ==
    IF loadByIndexOk(c, index)
    THEN startLoad([c EXCEPT !.state.currentIndex = index])
    ELSE {c}
loadByIndexBlocking(c, index) ==
    IF loadByIndexOk(c, index)
    THEN startLoad([c EXCEPT !.state.currentIndex = index])
    ELSE {c}

\* preload as it would be if the preloader setting were not looked at
preload_always(c, index) ==
    LET c1 == [c EXCEPT !.out.pre = <<c.settings.usePreloader>>]
        c2 == IF checkRange(c, index) THEN Call(c1, "contains") ELSE c1
    IN  IF checkRange(c, index) /\ ~contains(c.cache, fileNameAt(c, index))
        THEN load(c2, filePathAt(c, index))
        ELSE c2

preload(c, index) ==
    LET c1 == [c EXCEPT !.out.pre = <<c.settings.usePreloader>>]
        c2 == IF c.settings.usePreloader /\ checkRange(c, index)
              THEN Call(c1, "contains") ELSE c1
    IN  IF c.settings.usePreloader /\ checkRange(c, index)
             /\ ~contains(c.cache, fileNameAt(c, index))
        THEN load(c2, filePathAt(c, index))
        ELSE c2

\* nextTarget as it would be if the end of the directory always wrapped
nextTarget_alwaysWrap(c) ==
    LET index == c.state.currentIndex + 1
    IN  IF index >= fileCount(c) THEN 0 ELSE index

\* slotNextImage up to the return or the assignment of state.currentIndex: the
\* index to go to, or -1 for the return at the end of the directory
nextTarget(c) ==
    LET index == c.state.currentIndex + 1
    IN  IF index >= fileCount(c)
        THEN (IF c.infiniteScrolling THEN 0 ELSE -1)
        ELSE index
slotNextImage(c) ==
    IF hasImages(c)
    THEN LET c1 == IF c.state.currentIndex + 1 >= fileCount(c)
                   THEN [c EXCEPT !.out.inf = <<c.infiniteScrolling>>]
                   ELSE c
         IN  IF nextTarget(c) = -1
             THEN {showMessage(c1, "DirectoryEnd")}
             ELSE {preload(x, nextTarget(c) + 1) :
                      x \in startLoad([c1 EXCEPT !.state.currentIndex = nextTarget(c)])}
    ELSE {c}

\* the same of slotPrevImage, -1 for the return at the start of the directory
prevTarget(c) ==
    LET index == c.state.currentIndex - 1
    IN  IF index < 0
        THEN (IF c.infiniteScrolling THEN fileCount(c) - 1 ELSE -1)
        ELSE index
slotPrevImage(c) ==
    IF hasImages(c)
    THEN LET c1 == IF c.state.currentIndex - 1 < 0
                   THEN [c EXCEPT !.out.inf = <<c.infiniteScrolling>>]
                   ELSE c
         IN  IF prevTarget(c) = -1
             THEN {showMessage(c1, "DirectoryStart")}
             ELSE {preload(x, prevTarget(c) - 1) :
                      x \in startLoad([c1 EXCEPT !.state.currentIndex = prevTarget(c)])}
    ELSE {c}

jumpToFirst(c) ==
    IF hasImages(c)
    THEN {showMessage(x, "DirectoryStart") : x \in loadByIndex(c, 0)}
    ELSE {c}
jumpToLast(c) ==
    IF hasImages(c)
    THEN {showMessage(x, "DirectoryEnd") : x \in loadByIndex(c, fileCount(c) - 1)}
    ELSE {c}

\* onFileRemoved as it would be if it stepped back without trying the same index
onFileRemoved_stepBack(c, index) ==
    IF c.state.currentIndex = index
    THEN IF fileCount(c) = 0
         THEN {Flag(c, "closeImage; No file opened.")}
         ELSE LET c1 == [c EXCEPT !.state.currentIndex = @ - 1]
              IN  loadByIndexBlocking(c1, c1.state.currentIndex)
    ELSE {c}

\* onFileRemoved(index), delivered when the directory manager has dropped the file
onFileRemoved(c, index) ==
    IF c.state.currentIndex = index
    THEN IF fileCount(c) = 0
         THEN {Flag(c, "closeImage; No file opened.")}
         ELSE IF loadByIndexOk(c, c.state.currentIndex)
              THEN loadByIndexBlocking(c, c.state.currentIndex)
              ELSE LET c1 == [c EXCEPT !.state.currentIndex = @ - 1]
                   IN  loadByIndexBlocking(c1, c1.state.currentIndex)
    ELSE {c}

\* reset as it would be without the call of clearCache
reset_keepCache(c) ==
    [c EXCEPT !.state = [currentIndex |-> 0, hasActiveImage |-> FALSE,
                         isWaitingForLoader |-> FALSE,
                         displayingFileName |-> NoName]]

reset(c) ==
    clearCache([c EXCEPT !.state = [currentIndex |-> 0, hasActiveImage |-> FALSE,
                                    isWaitingForLoader |-> FALSE,
                                    displayingFileName |-> NoName]])

setDirectory(c, newPath) ==
    IF ~hasImages(c) \/ c.dirPath # newPath
    THEN Flag([reset(c) EXCEPT !.dirPath = newPath, !.navigated = FALSE],
              "setDirectory")
    ELSE c

loadDirectory(c, path) ==
    LET c1 == setDirectory(reset(c), path)
    IN  IF hasImages(c1)
        THEN loadByIndexBlocking(c1, 0)
        ELSE {showMessage(c1, "Directory does not contain supported files.")}

loadImage(c, path, blocking) ==
    LET c1 == setDirectory(c, path.dir)
        c2 == onLoadStarted([c1 EXCEPT !.state.currentIndex = indexOf(c1, path.name)])
        nameKey == fileNameAt(c2, c2.state.currentIndex)
    IN  IF contains(c2.cache, nameKey)
        THEN {displayImage(Calls(c2, <<"contains", "get">>), get(c2.cache, nameKey))}
        ELSE IF blocking THEN {loadBlocking(Call(c2, "contains"), path)}
        ELSE loadExclusive(Call(c2, "contains"), path)

\* DirectoryManager::isImage / isDirectory of a path; [dir, NoName] is the path of
\* the directory itself
isImage(c, path) ==
    /\ path.dir \in Dirs
    /\ \E i \in 1..Len(c.fs[path.dir]) : c.fs[path.dir][i] = path.name
isDirectory(c, path) == path.dir \in Dirs /\ path.name = NoName

loadByPath(c, path, blocking) ==
    IF isImage(c, path) THEN loadImage(c, path, blocking)
    ELSE IF isDirectory(c, path) THEN loadDirectory(c, path.dir)
    ELSE {showMessage(c, "File does not exist or is not supported.")}

\* editCurrent as it would be if the kind of the image were not looked at
editCurrent_anyKind(c) ==
    IF c.state.currentIndex >= 0
    THEN LET nameKey == fileNameAt(c, c.state.currentIndex)
         IN  IF contains(c.cache, nameKey)
             THEN displayImage(
                      Flag([Calls(c, <<"lock", "reserve", "get", "setEditedImage",
                                       "release", "unlock">>)
                               EXCEPT !.cache = setEditedImage(c.cache, nameKey)],
                           "edited"),
                      get(c.cache, nameKey))
             ELSE Flag(Calls(c, <<"lock", "reserveFailed", "unlock">>),
                       "qDebug: could not lock cache object")
    ELSE c

\* editCurrent as it would be if the failed reserve returned without unlocking
editCurrent_noUnlockOnFail(c) ==
    IF c.state.currentIndex >= 0
    THEN LET nameKey == fileNameAt(c, c.state.currentIndex)
         IN  IF contains(c.cache, nameKey)
             THEN LET reserved == reserve(c.cache, nameKey)
                      img == get(reserved, nameKey)
                  IN  IF img # NullImg /\ ImageType(img) = "STATIC"
                      THEN displayImage(
                               Flag([Calls(c, <<"lock", "reserve", "get", "setEditedImage",
                                                "release", "unlock">>)
                                        EXCEPT !.cache =
                                        release(setEditedImage(reserved, nameKey), nameKey)],
                                    "edited"),
                               img)
                      ELSE showMessage(
                               Flag([Calls(c, <<"lock", "reserve", "get", "release",
                                                "unlock">>)
                                        EXCEPT !.cache = release(reserved, nameKey)],
                                    "unsupported"),
                               "Editing gifs/video is unsupported.")
             ELSE Flag(Calls(c, <<"lock", "reserveFailed">>),
                       "qDebug: could not lock cache object")
    ELSE c
\* editCurrent as it would be if the edit that applies did not release
editCurrent_noRelease(c) ==
    IF c.state.currentIndex >= 0
    THEN LET nameKey == fileNameAt(c, c.state.currentIndex)
         IN  IF contains(c.cache, nameKey)
             THEN LET reserved == reserve(c.cache, nameKey)
                      img == get(reserved, nameKey)
                  IN  IF img # NullImg /\ ImageType(img) = "STATIC"
                      THEN displayImage(
                               Flag([Calls(c, <<"lock", "reserve", "get", "setEditedImage",
                                                "unlock">>)
                                        EXCEPT !.cache = setEditedImage(reserved, nameKey)],
                                    "edited"),
                               img)
                      ELSE showMessage(
                               Flag([Calls(c, <<"lock", "reserve", "get", "release",
                                                "unlock">>)
                                        EXCEPT !.cache = release(reserved, nameKey)],
                                    "unsupported"),
                               "Editing gifs/video is unsupported.")
             ELSE Flag(Calls(c, <<"lock", "reserveFailed", "unlock">>),
                       "qDebug: could not lock cache object")
    ELSE c

\* rotateByDegrees and resize run the same steps; what differs is the transform
\* handed to setEditedImage
editCurrent(c) ==
    IF c.state.currentIndex >= 0
    THEN LET nameKey == fileNameAt(c, c.state.currentIndex)
         IN  IF contains(c.cache, nameKey)                       \* cache->reserve
             THEN LET reserved == reserve(c.cache, nameKey)
                      img == get(reserved, nameKey)
                  IN  IF img # NullImg /\ ImageType(img) = "STATIC"
                      THEN displayImage(
                               Flag([Calls(c, <<"lock", "reserve", "get", "setEditedImage",
                                                "release", "unlock">>)
                                        EXCEPT !.cache =
                                        release(setEditedImage(reserved, nameKey), nameKey)],
                                    "edited"),
                               img)
                      ELSE showMessage(
                               Flag([Calls(c, <<"lock", "reserve", "get", "release",
                                                "unlock">>)
                                        EXCEPT !.cache = release(reserved, nameKey)],
                                    "unsupported"),
                               "Editing gifs/video is unsupported.")
             ELSE Flag(Calls(c, <<"lock", "reserveFailed", "unlock">>),
                       "qDebug: could not lock cache object")
    ELSE c
rotateByDegrees(c) == editCurrent(c)
resize(c) == editCurrent(c)

showResizeDialog(c) ==
    IF get(c.cache, fileNameAt(c, c.state.currentIndex)) = NullImg
    THEN [Call(c, "get") EXCEPT !.out.ub = TRUE]   \* ->size() on the NULL get() returned
    ELSE Flag(Call(c, "get"), "resizeDialog")

scalingRequest(c) ==
    IF c.state.hasActiveImage /\ ~c.state.isWaitingForLoader
    THEN LET forScale == get(c.cache, fileNameAt(c, c.state.currentIndex))
         IN  IF forScale # NullImg
             THEN LET req == [path |-> filePathAt(c, c.state.currentIndex)]
                  IN  [Calls(c, <<"lock", "get", "unlock">>) EXCEPT
                                !.scalerQ = @ \cup {req},
                                !.out.flag = "requested",
                                !.out.ovf = Cardinality(c.scalerQ \cup {req}) > MaxScale]
             ELSE Calls(c, <<"lock", "get", "unlock">>)
    ELSE c

\* scaleAccepted as it would be without the comparison of the paths
scaleAccepted_ignorePath(c, req) == c.state.hasActiveImage

\* the test of onScalingFinished: the scaled frame goes to the viewer
scaleAccepted(c, req) ==
    c.state.hasActiveImage /\ filePathAt(c, c.state.currentIndex) = req.path
onScalingFinished(c, req) ==
    LET c1 == [c EXCEPT !.scalerQ = @ \ {req}]
    IN  IF scaleAccepted(c1, req)
        THEN Flag(c1, "updateFrame")
        ELSE Flag(c1, "deleted")

\* isRelevant as it would be with a window of two on either side
isRelevant_twoAway(index, currentIndex) ==
    ~(index < currentIndex - 2 \/ index > currentIndex + 2)
\* resolveInsert as it would be if the image of the failed insert went on
resolveInsert_keepLoser(ch, nameKey, img) ==
    [cache |-> insert(ch, nameKey, img), img |-> img]

\* the relevance test of onLoadFinished
isRelevant(index, currentIndex) ==
    ~(index < currentIndex - 1 \/ index > currentIndex + 1)
\* what onLoadFinished leaves in the cache and in img for a relevant completion
resolveInsert(ch, nameKey, img) ==
    IF ~contains(ch, nameKey)
    THEN [cache |-> insert(ch, nameKey, img), img |-> img]
    ELSE [cache |-> ch, img |-> get(ch, nameKey)]
\* onLoadFinished(img) where img->name() reads `name`: the image's own name, or, for
\* img == NULL, whatever the read through the null pointer yields
onLoadFinishedNamed(c, img, name) ==
    LET index == indexOf(c, name)
        nameKey == fileNameAt(c, index)
        r == IF isRelevant(index, c.state.currentIndex)
             THEN resolveInsert(c.cache, nameKey, img)
             ELSE [cache |-> c.cache, img |-> img]     \* deleted: dangling from here on
        cc == IF ~isRelevant(index, c.state.currentIndex) THEN c
              ELSE IF contains(c.cache, nameKey) THEN Calls(c, <<"insert", "get">>)
              ELSE Call(c, "insert")
        c1 == [cc EXCEPT !.cache = r.cache,
                        !.out.flag = IF ~isRelevant(index, c.state.currentIndex)
                                     THEN "irrelevant"
                                     ELSE IF contains(c.cache, nameKey) THEN "lost"
                                     ELSE "inserted"]
    IN  IF index = c.state.currentIndex THEN displayImage(c1, r.img) ELSE c1
onLoadFinished(c, img, garbage) ==
    IF img = NullImg
    THEN onLoadFinishedNamed([c EXCEPT !.out.ub = TRUE], img, garbage)
    ELSE onLoadFinishedNamed(c, img, img.name)

\* ----- the actions: one per slot of Core

\* Core::readSettings, run by the constructor and on Settings::settingsChanged
readSettings(c) == [c EXCEPT !.infiniteScrolling = c.settings.infiniteScrolling]

\* The settings belong to the user: settingsChanged() may arrive between any two
\* handlers, so what a handler finds in Core::infiniteScrolling and in
\* settings->usePreloader() is an input of the handler (s).  Only slotNextImage
\* and slotPrevImage read them.  cancelAll: the loader of this run cancels every
\* superseded decode in time.
SettingsValues == [infiniteScrolling : BOOLEAN, usePreloader : BOOLEAN]
Ctx(s, cancelAll) ==
    readSettings(
        [fs |-> fs, dirPath |-> dirPath, state |-> state, cache |-> cache,
         tasks |-> tasks, scalerQ |-> scalerQ, out |-> out, navigated |-> navigated,
         settings |-> s, infiniteScrolling |-> FALSE, cancelAll |-> cancelAll])
NoSettings == [infiniteScrolling |-> FALSE, usePreloader |-> FALSE]
cur == Ctx(NoSettings, FALSE)

\* Commit writes a handler's result back.  A handler that ran into undefined
\* behaviour (out.ub) either crashes or carries on; a handler that would exceed
\* a bound of the model (out.ovf) is not taken.
Carry(c) ==
    /\ fs' = c.fs
    /\ dirPath' = c.dirPath
    /\ state' = c.state
    /\ cache' = c.cache
    /\ tasks' = c.tasks
    /\ scalerQ' = c.scalerQ
    /\ out' = c.out
    /\ navigated' = c.navigated
Commit(c) ==
    /\ ~aborted
    /\ ~c.out.ovf
    /\ \/ aborted' = FALSE /\ Carry(c)
       \/ /\ c.out.ub
          /\ aborted' = TRUE
          /\ out' = [NoOut EXCEPT !.op = c.out.op, !.arg = c.out.arg, !.ub = TRUE]
          /\ UNCHANGED <<fs, dirPath, state, cache, tasks, scalerQ, navigated>>

NextImage(cancelAll) ==
    \E r \in UNION {slotNextImage(Begin(Ctx(s, cancelAll), "slotNextImage", 0)) :
                        s \in SettingsValues} : Commit(r)
PrevImage(cancelAll) ==
    \E r \in UNION {slotPrevImage(Begin(Ctx(s, cancelAll), "slotPrevImage", 0)) :
                        s \in SettingsValues} : Commit(r)
First(cancelAll) ==
    \E r \in jumpToFirst(Begin(Ctx(NoSettings, cancelAll), "jumpToFirst", 0)) : Commit(r)
Last(cancelAll) ==
    \E r \in jumpToLast(Begin(Ctx(NoSettings, cancelAll), "jumpToLast", 0)) : Commit(r)
\* thumbnailClicked(int): the strip holds fileCount thumbnails
ByIndex(cancelAll) ==
    \E i \in 0..(Len(fileList(cur)) - 1) :
        \E r \in loadByIndex(Begin(Ctx(NoSettings, cancelAll), "loadByIndex", i), i) :
            Commit(r)
\* opened(QString) -> loadByPathBlocking, and loadByPath for a path handed over
\* otherwise (modes: which of the two).  The paths tried: the files and the
\* directory itself of each directory of ds, and one path that does not exist.
ByPath(cancelAll, ds, modes) ==
    \E d \in ds \cup {NoDir}, n \in Names \cup {NoName}, blocking \in modes :
        LET path == [dir |-> d, name |-> n]
        IN  /\ d = NoDir => n = NoName
            /\ isImage(cur, path) \/ n = NoName
            /\ \E r \in loadByPath(Begin(Ctx(NoSettings, cancelAll),
                                         IF blocking THEN "loadByPathBlocking"
                                         ELSE "loadByPath", 0),
                                   path, blocking) : Commit(r)
\* DirectoryManager drops the file at index i (removeAt, or the watcher), then
\* fileRemovedAt(i) reaches onFileRemoved
Removed == NumFiles + 1 - (Len(fs[1]) + Len(fs[2]))
Removal(cancelAll) ==
    \E i \in 0..(Len(fileList(cur)) - 1) :
        /\ Removed < MaxRemoved
        /\ \E r \in onFileRemoved(
                        Begin([Ctx(NoSettings, cancelAll) EXCEPT
                                   !.fs[dirPath] = RemoveAt(@, i + 1),
                                   !.navigated = FALSE],
                              "onFileRemoved", i),
                        i) : Commit([r EXCEPT !.navigated = FALSE])
\* a decode in flight delivers loadFinished(img): the image, or, for a file that
\* cannot be decoded (always, for the empty path), NULL
Delivered(oks) ==
    \E t \in tasks, ok \in oks :
        /\ t.name = NoName => ~ok
        /\ \E img \in {IF ok THEN t ELSE NullImg} :
               \E c \in {Begin([cur EXCEPT !.tasks = @ \ {t}], "onLoadFinished", img)} :
                   \E r \in {onLoadFinished(c, img, garbage) :
                                garbage \in Names \cup {NoName}} :
                       Commit(r)

SlotNextImage == NextImage(FALSE)
SlotPrevImage == PrevImage(FALSE)
JumpToFirst == First(FALSE)
JumpToLast == Last(FALSE)
LoadByIndex == ByIndex(FALSE)
LoadByPath == ByPath(FALSE, {1}, {FALSE})
FileRemoved == Removal(FALSE)
LoadFinished == Delivered(BOOLEAN)
RotateByDegrees == Commit(rotateByDegrees(Begin(cur, "rotateByDegrees", 0)))
Resize == Commit(resize(Begin(cur, "resize", 0)))
ShowResizeDialog == Commit(showResizeDialog(Begin(cur, "showResizeDialog", 0)))

\* The orchestrator with its loader and cache: navigation, non-blocking opens in
\* directory 1, removal, edits and completions, over a loader whose cancellations
\* and decodes may fail.
Next ==
    \/ SlotNextImage
    \/ SlotPrevImage
    \/ JumpToFirst
    \/ JumpToLast
    \/ LoadByIndex
    \/ LoadByPath
    \/ FileRemoved
    \/ RotateByDegrees
    \/ Resize
    \/ LoadFinished

Spec == Init /\ [][Next]_vars

\* The orchestrator with its scaler: navigation, blocking and non-blocking opens
\* in both directories, removal, the resize dialog and the scaler's two slots,
\* over a loader that cancels every superseded decode and decodes every file.
ScaleNextImage == NextImage(TRUE)
ScalePrevImage == PrevImage(TRUE)
ScaleLoadByIndex == ByIndex(TRUE)
ScaleLoadByPath == ByPath(TRUE, Dirs, BOOLEAN)
ScaleFileRemoved == Removal(TRUE)
ScaleLoadFinished == Delivered({TRUE})
ScalingRequest == Commit(scalingRequest(Begin(cur, "scalingRequest", 0)))
ScalingFinished ==
    \E req \in scalerQ : Commit(onScalingFinished(Begin(cur, "onScalingFinished", req), req))

NextScale ==
    \/ ScaleNextImage
    \/ ScalePrevImage
    \/ ScaleLoadByIndex
    \/ ScaleLoadByPath
    \/ ScaleFileRemoved
    \/ ScaleLoadFinished
    \/ ShowResizeDialog
    \/ ScalingRequest
    \/ ScalingFinished

SpecScale == Init /\ [][NextScale]_vars

\* The users of the cache lock: the edits and the scaler's request, with
\* navigation, opens in both directories and completions around them, over a
\* loader that cancels every superseded decode and decodes every file.
NextEdit ==
    \/ ScaleNextImage
    \/ ScalePrevImage
    \/ ScaleLoadByPath
    \/ ScaleLoadFinished
    \/ RotateByDegrees
    \/ Resize
    \/ ScalingRequest
    \/ ScalingFinished

SpecEdit == Init /\ [][NextEdit]_vars

\* The orchestrator with a loader that delivers: navigation, non-blocking opens
\* in directory 1, removal and completions, over a loader that cancels every
\* superseded decode and decodes every file.  Every decode in flight is one that
\* was not cancelled, and the event loop delivers its loadFinished: weak fairness
\* of the delivery.  The user's events and the removals may stop at any time.
LiveLoadByPath == ByPath(TRUE, {1}, {FALSE})
LiveUser ==
    \/ ScaleNextImage
    \/ ScalePrevImage
    \/ ScaleLoadByIndex
    \/ LiveLoadByPath
    \/ ScaleFileRemoved

NextLive ==
    \/ LiveUser
    \/ ScaleLoadFinished

SpecLive == Init /\ [][NextLive]_vars /\ WF_vars(ScaleLoadFinished)

\* The cache on its own: the calls of its contract applied in any order to the
\* entries of directory 1, together with Core's trimCache and clearCache, with
\* currentIndex anywhere in the directory.
CacheInit ==
    /\ fs = InitialFs
    /\ dirPath = 1
    /\ state \in [currentIndex : 0..(NumFiles - 1), hasActiveImage : {FALSE},
                  isWaitingForLoader : {TRUE}, displayingFileName : {NoName}]
    /\ cache = EmptyCache
    /\ tasks = {}
    /\ scalerQ = {}
    /\ out = NoOut
    /\ navigated = FALSE
    /\ aborted = FALSE
CacheCall(op, arg, ch) ==
    /\ cache' = ch
    /\ out' = [NoOut EXCEPT !.op = op, !.arg = arg]
    /\ UNCHANGED <<fs, dirPath, state, tasks, scalerQ, navigated, aborted>>
CacheInsert ==
    \E n \in 1..NumFiles :
        CacheCall("insert", n, insert(cache, n, [dir |-> 1, name |-> n, tag |-> 1]))
CacheReserve ==
    \E k \in 1..NumFiles :
        /\ contains(cache, k) => cache[k].res < MaxRes
        /\ CacheCall("reserve", k, reserve(cache, k))
CacheRelease ==
    \E k \in 1..NumFiles : CacheCall("release", k, release(cache, k))
CacheTrimTo ==
    \E keep \in SUBSET (1..NumFiles) : CacheCall("trimTo", keep, trimTo(cache, keep))
CacheClear == CacheCall("clear", 0, clear(cache))
CoreTrimCache == Commit(trimCache(Begin(cur, "trimCache", 0)))
CoreClearCache == Commit(clearCache(Begin(cur, "clearCache", 0)))

NextCache ==
    \/ CacheInsert
    \/ CacheReserve
    \/ CacheRelease
    \/ CacheTrimTo
    \/ CacheClear
    \/ CoreTrimCache
    \/ CoreClearCache

CacheSpec == CacheInit /\ [][NextCache]_vars

\* ----- properties

\* the names of the files at currentIndex - 1, currentIndex, currentIndex + 1,
\* where the directory has such an index
Window ==
    {fileNameAt(cur, i) :
        i \in {j \in (state.currentIndex - 1)..(state.currentIndex + 1) : checkRange(cur, j)}}
\* the index in the directory of the image a completion carries
DeliveredIndex == indexOf(cur, out'.arg.name)
DeliveredKey == fileNameAt(cur, DeliveredIndex)
Started == out'.sub # <<>> \/ out'.disp # <<>>

\* C1: after a successful navigation or open, and through the completions that
\* follow it, every key of the cache is the name of the file at currentIndex - 1,
\* currentIndex or currentIndex + 1, unless its entry is reserved.
C1_WindowInvariant ==
    (navigated /\ ~aborted) =>
        \A k \in DOMAIN cache : k \in Window \/ cache[k].res > 0

\* C2: a scale completion whose request was made for another path than that of
\* the file at currentIndex is deleted: no updateFrame, nothing displayed, state
\* and cache as they were.
C2_StaleScaleRejected ==
    [][(out'.op = "onScalingFinished"
          /\ out'.arg.path # filePathAt(cur, state.currentIndex))
       => (out'.flag = "deleted" /\ out'.disp = <<>>
             /\ state' = state /\ cache' = cache)]_vars
C2_Witness ==
    /\ out.op = "onScalingFinished"
    /\ state.hasActiveImage
    /\ checkRange(cur, state.currentIndex)
    /\ out.arg.path # filePathAt(cur, state.currentIndex)
    /\ out.flag = "deleted"

\* C3: in a directory with files, slotNextImage at the last index (slotPrevImage
\* at index 0) with infinite scrolling off shows DirectoryEnd (DirectoryStart)
\* and changes neither the state nor the cache nor the loads in flight; with
\* infinite scrolling on it goes to index 0 (fileCount - 1) and starts the load
\* or the display of that file.
C3_BoundaryNavigation ==
    [][/\ (out'.op = "slotNextImage" /\ hasImages(cur) /\ ~aborted'
             /\ state.currentIndex = fileCount(cur) - 1)
          => /\ out'.inf = <<FALSE>> =>
                   /\ out'.msgs = <<"DirectoryEnd">>
                   /\ state' = state /\ cache' = cache /\ tasks' = tasks
                   /\ ~Started
             /\ out'.inf = <<TRUE>> =>
                   /\ state'.currentIndex = 0
                   /\ Started
             /\ out'.inf # <<>>
       /\ (out'.op = "slotPrevImage" /\ hasImages(cur) /\ ~aborted'
             /\ state.currentIndex = 0)
          => /\ out'.inf = <<FALSE>> =>
                   /\ out'.msgs = <<"DirectoryStart">>
                   /\ state' = state /\ cache' = cache /\ tasks' = tasks
                   /\ ~Started
             /\ out'.inf = <<TRUE>> =>
                   /\ state'.currentIndex = fileCount(cur) - 1
                   /\ Started
             /\ out'.inf # <<>>]_vars
C3_Witness ==
    /\ out.op = "slotNextImage"
    /\ out.inf = <<FALSE>>
    /\ out.msgs = <<"DirectoryEnd">>
    /\ state.currentIndex = fileCount(cur) - 1
    /\ fileCount(cur) = NumFiles

\* C4: a completion carrying an image whose index is more than one away from
\* currentIndex changes neither the cache nor the state and displays nothing; one
\* whose index (of a file in the directory) is within one of currentIndex leaves
\* an entry under its name, and is displayed exactly if its index is currentIndex.
C4_RelevantWindowDiscard ==
    [][(out'.op = "onLoadFinished" /\ out'.arg # NullImg /\ ~aborted')
       => /\ (DeliveredIndex < state.currentIndex - 1
                \/ DeliveredIndex > state.currentIndex + 1)
             => (cache' = cache /\ state' = state /\ out'.disp = <<>>)
          /\ (DeliveredIndex >= 0
                /\ DeliveredIndex >= state.currentIndex - 1
                /\ DeliveredIndex <= state.currentIndex + 1)
             => /\ contains(cache', DeliveredKey)
                /\ out'.disp # <<>> <=> DeliveredIndex = state.currentIndex]_vars
C4_Witness ==
    /\ out.op = "onLoadFinished"
    /\ out.arg # NullImg
    /\ indexOf(cur, out.arg.name) > state.currentIndex + 1
    /\ out.flag = "irrelevant"
    /\ ~contains(cache, out.arg.name)

\* C5: of two completions for the same key the first is inserted; the second
\* leaves the cache as it is, and what goes to the display for the current index
\* is the instance the cache holds, not the one the second completion carried.
C5_InsertRaceResolution ==
    [][(out'.op = "onLoadFinished" /\ out'.arg # NullImg /\ ~aborted'
          /\ DeliveredIndex >= 0
          /\ DeliveredIndex >= state.currentIndex - 1
          /\ DeliveredIndex <= state.currentIndex + 1)
       => IF contains(cache, DeliveredKey)
          THEN /\ cache' = cache
               /\ DeliveredIndex = state.currentIndex
                    => out'.disp = <<cache[DeliveredKey].img>>
          ELSE /\ cache'[DeliveredKey].img = out'.arg
               /\ \A k \in DOMAIN cache : cache'[k] = cache[k]
               /\ DeliveredIndex = state.currentIndex => out'.disp = <<out'.arg>>]_vars
C5_Witness ==
    /\ out.op = "onLoadFinished"
    /\ out.arg # NullImg
    /\ out.flag = "lost"
    /\ Len(out.disp) = 1
    /\ out.disp[1] # out.arg
    /\ out.disp[1].name = out.arg.name
    /\ get(cache, out.arg.name) = out.disp[1]

\* C6: trimTo with any keep-set, clear, and Core's trimCache and clearCache leave
\* every entry with a reservation count above 0 as it is; trimTo removes every
\* entry with reservation count 0 whose key is not in the keep-set.
C6_ReservationProtection ==
    [][/\ out'.op \in {"trimTo", "clear", "trimCache", "clearCache"}
          => \A k \in DOMAIN cache :
                cache[k].res > 0 => (contains(cache', k) /\ cache'[k] = cache[k])
       /\ out'.op = "trimTo"
          => \A k \in DOMAIN cache :
                (cache[k].res = 0 /\ k \notin out'.arg) => ~contains(cache', k)
       /\ out'.op = "clear"
          => \A k \in DOMAIN cache : cache[k].res = 0 => ~contains(cache', k)]_vars
C6_Witness ==
    /\ out.op = "trimTo"
    /\ out.arg = {}
    /\ \E k \in DOMAIN cache : cache[k].res > 0
    /\ \E k \in (1..NumFiles) \ DOMAIN cache : TRUE

\* C7: when the file at currentIndex is removed and files remain, Core reloads at
\* the same index if the directory still has it and at currentIndex - 1 if not;
\* currentIndex is then an index of the directory and the load or the display of
\* its file has started.  The removal of a file at another index starts nothing.
C7_RemovalOfCurrent ==
    [][(out'.op = "onFileRemoved" /\ ~aborted')
       => /\ (out'.arg = state.currentIndex /\ Len(fs'[dirPath]) > 0)
             => /\ state'.currentIndex = IF out'.arg < Len(fs'[dirPath])
                                         THEN out'.arg ELSE out'.arg - 1
                /\ state'.currentIndex >= 0
                /\ state'.currentIndex < Len(fs'[dirPath])
                /\ Started
          /\ out'.arg # state.currentIndex
             => (~Started /\ state' = state /\ cache' = cache /\ tasks' = tasks)]_vars
C7_Witness ==
    /\ out.op = "onFileRemoved"
    /\ out.arg = state.currentIndex + 1
    /\ out.arg = fileCount(cur)
    /\ out.sub # <<>> \/ out.disp # <<>>

\* C8: when the file at currentIndex is removed and the directory is empty,
\* hasActiveImage becomes false, the empty-directory indication is shown and no
\* load is submitted.
C8_RemovalOfLastFile ==
    [][(out'.op = "onFileRemoved" /\ out'.arg = state.currentIndex
          /\ Len(fs'[dirPath]) = 0)
       => (~state'.hasActiveImage
             /\ out'.flag = "closeImage; No file opened."
             /\ out'.sub = <<>>)]_vars

\* C9: a completion carrying NULL is handled without undefined behaviour and
\* without a crash, shows a message, and leaves hasActiveImage and
\* isWaitingForLoader as they were.
C9_DecodeFailureNonFatal ==
    [][(out'.op = "onLoadFinished" /\ out'.arg = NullImg)
       => (~out'.ub /\ ~aborted' /\ out'.msgs # <<>>
             /\ state'.hasActiveImage = state.hasActiveImage
             /\ state'.isWaitingForLoader = state.isWaitingForLoader)]_vars

\* C10: rotateByDegrees or resize with currentIndex >= 0 and no entry in the
\* cache for the current file shows a message.
C10_EditFailedReservation ==
    [][(out'.op \in {"rotateByDegrees", "resize"}
          /\ state.currentIndex >= 0
          /\ ~contains(cache, fileNameAt(cur, state.currentIndex)))
       => out'.msgs # <<>>]_vars

\* the key of the current file, and whether an edit applies to what the cache
\* holds under it
CurrentKey == fileNameAt(cur, state.currentIndex)
EditApplies ==
    /\ contains(cache, CurrentKey)
    /\ get(cache, CurrentKey) # NullImg
    /\ ImageType(get(cache, CurrentKey)) = "STATIC"

\* C11: rotateByDegrees or resize, when the cache has no entry for the current
\* file or the image is not STATIC, leaves the cache (keys, images, edits and
\* reservation counts) and the navigation state as they were.
C11_InapplicableEditNoOp ==
    [][(out'.op \in {"rotateByDegrees", "resize"} /\ ~EditApplies)
       => (cache' = cache /\ state' = state)]_vars
C11_Witness ==
    /\ out.op \in {"rotateByDegrees", "resize"}
    /\ out.flag = "unsupported"
    /\ contains(cache, CurrentKey)
    /\ ImageType(get(cache, CurrentKey)) = "ANIMATED"
    /\ ~cache[CurrentKey].edited

C13_WaitingExactlyWhilePending ==
    ~aborted =>
        (state.isWaitingForLoader <=>
            \E t \in tasks : /\ CurrentKey # NoName
                             /\ t.dir = dirPath
                             /\ t.name = CurrentKey)

\* C14: once an image has been displayed, currentIndex is an index of the
\* directory whenever the directory has files.
C14_CurrentIndexInRange ==
    (state.hasActiveImage /\ ~aborted /\ hasImages(cur))
        => checkRange(cur, state.currentIndex)

\* C15: an open in blocking mode that calls loadBlocking has, when it returns,
\* displayed the image, with isWaitingForLoader false and hasActiveImage true.
C15_BlockingOpenDisplays ==
    [][(out'.op = "loadByPathBlocking"
          /\ \E i \in DOMAIN out'.sub : out'.sub[i][1] = "loadBlocking")
       => (out'.disp # <<>>
             /\ ~state'.isWaitingForLoader
             /\ state'.hasActiveImage)]_vars

\* C16: a completion carrying the image of a file that is not in the file list
\* inserts nothing into the cache, displays nothing and leaves the navigation
\* state as it was, whatever currentIndex is.
C16_LateNotificationDiscarded ==
    [][(out'.op = "onLoadFinished" /\ out'.arg # NullImg /\ DeliveredIndex = -1)
       => (cache' = cache /\ out'.disp = <<>> /\ state' = state)]_vars

\* a step of slotNextImage or slotPrevImage that went to an index: the index,
\* its neighbour in the direction of travel, and the loader calls of the step
NavSucceeded ==
    /\ out'.op \in {"slotNextImage", "slotPrevImage"}
    /\ ~aborted'
    /\ hasImages(cur)
    /\ \A i \in DOMAIN out'.msgs : out'.msgs[i] \notin {"DirectoryEnd", "DirectoryStart"}
NavNeighbour ==
    IF out'.op = "slotNextImage" THEN state'.currentIndex + 1
    ELSE state'.currentIndex - 1
NavExclusive == {i \in DOMAIN out'.sub : out'.sub[i][1] = "loadExclusive"}
NavSpeculative == {i \in DOMAIN out'.sub : out'.sub[i][1] = "load"}

\* C17: a step of slotNextImage or slotPrevImage that goes to index k trims the
\* cache before it looks k up; if k's file is cached it is displayed,
\* isWaitingForLoader is false and no loadExclusive is made; otherwise there is
\* one loadExclusive, of k's path, and isWaitingForLoader is true.  A load of the
\* neighbour's path is made exactly if the preloader is on, the neighbour is in
\* range and not cached, and it is the last call on the loader.
C17_NavigationSubmissions ==
    [][NavSucceeded =>
         /\ Len(out'.calls) >= 4
         /\ SubSeq(out'.calls, 1, 4) = <<"lock", "trimTo", "unlock", "contains">>
         /\ IF contains(cache, fileNameAt(cur, state'.currentIndex))
            THEN /\ out'.disp = <<get(cache, fileNameAt(cur, state'.currentIndex))>>
                 /\ ~state'.isWaitingForLoader
                 /\ NavExclusive = {}
            ELSE /\ NavExclusive = {1}
                 /\ out'.sub[1][2] = filePathAt(cur, state'.currentIndex)
                 /\ out'.disp = <<>>
                 /\ state'.isWaitingForLoader
         /\ NavSpeculative # {}
              <=> /\ out'.pre = <<TRUE>>
                  /\ checkRange(cur, NavNeighbour)
                  /\ ~contains(cache', fileNameAt(cur, NavNeighbour))
         /\ NavSpeculative # {}
              => /\ NavSpeculative = {Len(out'.sub)}
                 /\ out'.sub[Len(out'.sub)][2] = filePathAt(cur, NavNeighbour)]_vars
C17_Witness ==
    /\ out.op = "slotNextImage"
    /\ state.isWaitingForLoader
    /\ Len(out.sub) = 2
    /\ out.sub[1] = <<"loadExclusive", filePathAt(cur, state.currentIndex)>>
    /\ out.sub[2] = <<"load", filePathAt(cur, state.currentIndex + 1)>>
    /\ out.pre = <<TRUE>>

\* the number of times name is among the first n calls, and with it the number
\* of locks held after the first n calls
CountOf(calls, name, n) == Cardinality({i \in 1..n : calls[i] = name})
LockDepth(calls, n) == CountOf(calls, "lock", n) - CountOf(calls, "unlock", n)

\* C18: in every handler the cache lock is taken only when it is not held,
\* given back only when it is held, and not held when the handler returns.
C18_LockPairing ==
    /\ \A n \in 0..Len(out.calls) : LockDepth(out.calls, n) \in {0, 1}
    /\ LockDepth(out.calls, Len(out.calls)) = 0
C18_Witness ==
    /\ out.op = "resize"
    /\ out.flag = "qDebug: could not lock cache object"
    /\ out.calls = <<"lock", "reserveFailed", "unlock">>
    /\ \E req \in scalerQ : TRUE

\* the calls that change the cache, and the positions in a handler's calls of
\* those that form a sequence with the call next to them (contains or insert,
\* then get)
Mutators ==
    {"insert", "trimTo", "clear", "reserve", "reserveFailed", "release", "setEditedImage"}
InSequence(calls, i) ==
    \/ calls[i] \in {"contains", "insert"} /\ i < Len(calls) /\ calls[i + 1] = "get"
    \/ calls[i] = "get" /\ i > 1 /\ calls[i - 1] \in {"contains", "insert"}

\* C19: every call that changes the cache, and every call of a sequence of calls,
\* is made with the cache lock held.
C19_LockDiscipline ==
    \A i \in DOMAIN out.calls :
        (out.calls[i] \in Mutators \/ InSequence(out.calls, i))
            => LockDepth(out.calls, i - 1) = 1

\* C20: in rotateByDegrees and resize every release follows a reserve that
\* succeeded and has not been released, there are as many releases as reserves
\* that succeeded, none after one that failed; the reservation counts are then
\* what they were, and 0.
C20_ReservationBalance ==
    [][out'.op \in {"rotateByDegrees", "resize"}
       => /\ \A n \in 0..Len(out'.calls) :
                CountOf(out'.calls, "release", n) <= CountOf(out'.calls, "reserve", n)
          /\ CountOf(out'.calls, "release", Len(out'.calls))
                = CountOf(out'.calls, "reserve", Len(out'.calls))
          /\ CountOf(out'.calls, "reserve", Len(out'.calls))
               + CountOf(out'.calls, "reserveFailed", Len(out'.calls)) <= 1
          /\ DOMAIN cache' = DOMAIN cache
          /\ \A k \in DOMAIN cache : cache'[k].res = cache[k].res /\ cache'[k].res = 0]_vars
C20_Witness ==
    /\ out.op = "rotateByDegrees"
    /\ out.flag = "edited"
    /\ CountOf(out.calls, "reserve", Len(out.calls)) = 1
    /\ CountOf(out.calls, "release", Len(out.calls)) = 1
    /\ contains(cache, CurrentKey)
    /\ cache[CurrentKey].edited
    /\ cache[CurrentKey].res = 0

\* the file at currentIndex, if there is one, is the one displayed, and Core is
\* not waiting for the loader
CurrentDisplayed ==
    checkRange(cur, state.currentIndex)
        => /\ ~state.isWaitingForLoader
           /\ state.hasActiveImage
           /\ state.displayingFileName = CurrentKey

\* C21: if from some point on the user navigates no more and no file is removed,
\* so that only completions are left to happen, then from some point on Core is
\* not waiting and the image shown is that of the file at currentIndex, if the
\* directory has such a file.
C21_EventualDisplay ==
    <>[][out'.op = "onLoadFinished"]_vars => <>[]CurrentDisplayed

\* C22: no handler reads through a NULL that cache->get returned for the current
\* file: showResizeDialog at any time, updateInfoString whenever
\* isWaitingForLoader is false; so no cache miss ends the process.
C22_NoReadOfAbsentEntry ==
    [][(out'.op # "onLoadFinished" \/ out'.arg # NullImg)
       => (~out'.ub /\ ~aborted')]_vars
=============================================================================
